---- MODULE Spec2Model ----
(***************************************************************************)
(* The chat endpoint of app/main.py (chat, _run_llm_with_tools), the       *)
(* in-memory SessionManager of app/sessions.py and the tool dispatch of    *)
(* app/rag/tools.py, as a state machine.                                   *)
(*                                                                         *)
(* Each request (turn) runs chat() on a worker thread of its own; the      *)
(* session manager (a dict of list objects behind a Lock) is shared.       *)
(* Python strings are sequences of one-character strings, so that strip()  *)
(* and "\n".join() are computed, not assumed.                              *)
(***************************************************************************)
EXTENDS Integers, Sequences, FiniteSets, TLC

(* ------------------------------ bounds -------------------------------- *)
\* chat requests (turns) the server receives, each served by its own worker
\* thread, in any interleaving
NumTurns == 2
\* content blocks in one provider response
MaxBlocks == 2

Turns == 1..NumTurns

SessionIds == {"s1", "s2"}
\* session ids are opaque and interchangeable: the id the first request
\* carries is called "s1", every later request carries any id
SessionIdsOf(t) == IF t = 1 THEN {"s1"} ELSE SessionIds
NoSession == "none"

(* ------------------------------ strings ------------------------------- *)
Whitespace == {" ", "\n"}
EmptyStr == <<>>

RECURSIVE LStrip(_)
LStrip(s) ==
    IF s # <<>> /\ Head(s) \in Whitespace THEN LStrip(Tail(s)) ELSE s

RECURSIVE RStrip(_)
RStrip(s) ==
    IF s # <<>> /\ s[Len(s)] \in Whitespace
    THEN RStrip(SubSeq(s, 1, Len(s) - 1))
    ELSE s

\* str.strip()
Strip(s) == RStrip(LStrip(s))

\* sep.join(parts)
RECURSIVE Join(_, _)
Join(sep, parts) ==
    IF parts = <<>> THEN EmptyStr
    ELSE IF Len(parts) = 1 THEN parts[1]
    ELSE parts[1] \o sep \o Join(sep, Tail(parts))

\* the request bodies a client may send as ChatRequest.message
UserMessages == { <<>>, <<" ">>, <<"h", "i">> }

(* --------------------------- tools (tools.py) ------------------------- *)
ToolFunctions == {"get_order_status", "send_email"}

\* the keyword parameters each tool function declares (all required)
ToolParams(name) ==
    IF name = "get_order_status" THEN {"order_id"}
    ELSE {"recipient_email", "message"}

\* the tool bodies; arguments is a function from parameter names to values
get_order_status(arguments) ==
    [order_id |-> arguments["order_id"], status |-> "shipped",
     estimated_delivery |-> "today", carrier |-> "Acme Logistics"]

\* message[:60]
PreviewLen == 60
Prefix(s, n) == SubSeq(s, 1, IF Len(s) < n THEN Len(s) ELSE n)

send_email(arguments) ==
    [success |-> TRUE, recipient |-> arguments["recipient_email"],
     message_preview |-> Prefix(arguments["message"], PreviewLen),
     detail |-> "Email sent (simulated)."]

\* a call either returns a value or raises an exception
Returned(v) == [raised |-> FALSE, value |-> v]
Raised(exc, msg) == [raised |-> TRUE, exc |-> exc, msg |-> msg]

\* faulty variant: the call is made with the declared parameters only, a
\* missing one defaulting to "": func(**{p: arguments.get(p, "") for p in params})
CallToolFillingDefaults(name, arguments) ==
    LET given == [p \in ToolParams(name) |->
                    IF p \in DOMAIN arguments THEN arguments[p] ELSE EmptyStr]
    IN  IF name = "get_order_status"
        THEN Returned(get_order_status(given))
        ELSE Returned(send_email(given))

\* func(**arguments): Python binds the keywords before the body runs and
\* raises TypeError on a missing or an unexpected keyword
CallTool(name, arguments) ==
    IF DOMAIN arguments # ToolParams(name)
    THEN Raised("TypeError", <<"bad arguments", name>>)
    ELSE IF name = "get_order_status"
         THEN Returned(get_order_status(arguments))
         ELSE Returned(send_email(arguments))

execute_tool(name, arguments) ==
    IF name \notin ToolFunctions
    THEN Raised("KeyError", <<"Unknown tool", name>>)
    ELSE CallTool(name, arguments)

\* faulty variant: "except Exception" narrowed to nothing: "except ():"
CaughtNothing == {}

\* faulty variant: "except Exception" narrowed to "except TypeError"
CaughtOnlyTypeError == {"TypeError"}

\* the exception classes the tool loop's "except Exception" clause catches
CaughtByToolLoop == {"KeyError", "TypeError", "Exception"}


(* ------------------- retrieval context (retriever.py) ----------------- *)
DigitChar == <<"0", "1", "2", "3", "4", "5", "6", "7", "8", "9">>
Digit(d) == DigitChar[d + 1]

\* f"{score:.4f}" of a distance given in units of 1e-5 (no ties in the inputs)
Fmt4(score) ==
    LET r == (score + 5) \div 10
        f == r % 10000
    IN  <<Digit(r \div 10000), ".", Digit(f \div 1000), Digit((f \div 100) % 10),
          Digit((f \div 10) % 10), Digit(f % 10)>>

\* f"[Document {i} | score={hit['score']:.4f}]\n{hit['text']}"
ContextPart(i, hit) ==
    <<"[Document ", Digit(i), " | score=">> \o Fmt4(hit.score) \o <<"]", "\n">>
        \o hit.text

build_context_of(hits) ==
    Join(<<"\n", "\n">>, [i \in 1..Len(hits) |-> ContextPart(i, hits[i])])

\* build_context(req.message, k=3)
K == 3

\* the chunks of the collection, with their distance to the query
HitChoices ==
    { [text |-> <<"F", "A", "Q">>, score |-> 12344],
      [text |-> <<"S", "h", "i", "p">>, score |-> 50000],
      [text |-> <<" ">>, score |-> 99996] }

\* what retrieve(query, k) may return: at most k chunks, nearest first
HitLists ==
    UNION { { h \in [1..n -> HitChoices] :
                \A i \in 1..(n - 1) : h[i].score < h[i + 1].score } :
            n \in 0..K }

(* -------------------- system prompt (prompt.py) ----------------------- *)
NoContextSentinel == <<"NO CONTEXT RETRIEVED">>
PromptHead == <<"You are **HelpBot**", "Retrieved Context:", "\n">>
PromptTail == <<"\n", "Respond helpfully.">>

\* faulty variant: {context_block} inside the template, with no fallback
build_system_prompt_without_fallback(context_block) ==
    PromptHead \o context_block \o PromptTail

\* {context_block or 'NO CONTEXT RETRIEVED'} inside the template
build_system_prompt(context_block) ==
    PromptHead
        \o (IF context_block # EmptyStr THEN context_block ELSE NoContextSentinel)
        \o PromptTail

(* --------------------- provider responses (main.py) ------------------- *)
NoArgs == [x \in {} |-> EmptyStr]

\* the content blocks a response may carry, before the provider numbers them
TextChoices ==
    { [type |-> "text", text |-> <<"o", "k">>],
      [type |-> "text", text |-> <<" ">>] }

ToolChoices ==
    { [type |-> "tool_use", name |-> "get_order_status",
       input |-> [order_id |-> <<"1", "2", "3">>]],
      [type |-> "tool_use", name |-> "get_order_status", input |-> NoArgs],
      [type |-> "tool_use", name |-> "send_email",
       input |-> [recipient_email |-> <<"a", "@", "b">>, message |-> <<"h", "i">>]],
      [type |-> "tool_use", name |-> "send_email",
       input |-> [order_id |-> <<"1", "2", "3">>]],
      [type |-> "tool_use", name |-> "unknown_tool", input |-> NoArgs] }

BlockChoices == TextChoices \cup ToolChoices

\* the provider gives each tool_use block an id that is unique in the response
WithId(b, i) ==
    IF b.type = "tool_use"
    THEN [type |-> "tool_use", id |-> i, name |-> b.name, input |-> b.input]
    ELSE b

ResponsesOver(choices) ==
    UNION { { [i \in 1..n |-> WithId(bs[i], i)] : bs \in [1..n -> choices] } :
            n \in 0..MaxBlocks }

Responses == ResponsesOver(BlockChoices)

\* the responses of a single block that the interleaved turns are given
OneBlockResponses ==
    { <<[type |-> "text", text |-> <<"o", "k">>]>>,
      <<[type |-> "tool_use", id |-> 1, name |-> "unknown_tool", input |-> NoArgs]>> }

TextResponses == { <<[type |-> "text", text |-> <<"o", "k">>]>> }

\* the responses the follow-up request of a turn served alone is given
FollowupResponses ==
    ResponsesOver({ [type |-> "text", text |-> <<"o", "k">>],
                    [type |-> "tool_use", name |-> "get_order_status",
                     input |-> [order_id |-> <<"1", "2", "3">>]] })

\* the responses without tool use, and one with a tool use
TextOrOneToolResponses ==
    ResponsesOver(TextChoices)
        \cup { <<[type |-> "tool_use", id |-> 1, name |-> "unknown_tool",
                  input |-> NoArgs]>> }

\* get_tool_specs(): name and required properties of each schema
get_tool_specs ==
    <<[name |-> "get_order_status", required |-> {"order_id"}],
      [name |-> "send_email", required |-> {"recipient_email", "message"}]>>

\* the keyword arguments of the two anthropic_client.messages.create calls
first_create_args(system_prompt, messages) ==
    [system |-> system_prompt, messages |-> messages, tools |-> get_tool_specs]
second_create_args(system_prompt, followup_messages) ==
    [system |-> system_prompt, messages |-> followup_messages]
NoCall == [made |-> FALSE]

\* anthropic raises APIStatusError for an error status and APIConnectionError
\* (APITimeoutError is one) when no response arrives
ProviderErrors == {"APIStatusError", "APIConnectionError"}

\* _extract_text_from_blocks
RECURSIVE TextsOf(_)
TextsOf(blocks) ==
    IF blocks = <<>> THEN <<>>
    ELSE IF Head(blocks).type = "text"
         THEN <<Head(blocks).text>> \o TextsOf(Tail(blocks))
         ELSE TextsOf(Tail(blocks))

\* faulty variant: "\n".join(texts) returned without strip()
extract_text_unstripped(blocks) == Join(<<"\n">>, TextsOf(blocks))

extract_text_from_blocks(blocks) == Strip(Join(<<"\n">>, TextsOf(blocks)))

\* faulty variant: the copy leaves the newest message out (history[:-1])
format_history_dropping_last(history) ==
    [i \in 1..(Len(history) - 1) |->
        [role |-> history[i].role, content |-> history[i].content]]

\* _format_history_for_llm
format_history_for_llm(history) ==
    [i \in 1..Len(history) |->
        [role |-> history[i].role, content |-> history[i].content]]

(* ------------------------------- state -------------------------------- *)
VARIABLES
    sessions,   \* SessionManager._sessions: session id -> list object
    lists,      \* the list objects, in allocation order: each a message list
    lock,       \* SessionManager._lock: the set of turns holding it
    pc,         \* where each turn is in chat()
    loc,        \* each turn's local variables
    tags        \* history: for each list object, which turn appended each entry

vars == <<sessions, lists, lock, pc, loc, tags>>

Outcome(kind, status, cause) == [kind |-> kind, status |-> status, cause |-> cause]
NoOutcome == Outcome("none", 0, "none")

IdleLoc ==
    [session_id |-> NoSession, message |-> EmptyStr, ret |-> "none", history |-> 0,
     context_block |-> EmptyStr, system_prompt |-> EmptyStr, messages |-> <<>>,
     first_response |-> <<>>, blk |-> 0, tool_calls |-> <<>>,
     tool_results_blocks |-> <<>>, answer |-> EmptyStr,
     response |-> [answer |-> EmptyStr, tool_calls |-> <<>>],
     outcome |-> NoOutcome,
     \* history variables of the turn: calls made, failures met
     retrievals |-> 0, completions |-> 0, executions |-> 0,
     retrieval_failed |-> FALSE, provider_failed |-> 0,
     \* history variables: what retrieve returned, what was passed to each
     \* messages.create call, the follow-up response, tool bodies entered
     hits |-> <<>>, first_call |-> NoCall, second_call |-> NoCall,
     second_response |-> <<>>, bodies |-> 0,
     \* history variable: no other turn was being served for the same
     \* session id when this turn arrived
     alone |-> FALSE]

Init ==
    /\ sessions = [s \in {} |-> 0]
    /\ lists = <<>>
    /\ lock = {}
    /\ pc = [t \in Turns |-> "new"]
    /\ loc = [t \in Turns |-> IdleLoc]
    /\ tags = <<>>

\* the messages of session sid (empty when the session was never created)
HistoryOf(sid) == IF sid \in DOMAIN sessions THEN lists[sessions[sid]] ELSE <<>>
TagsOf(sid) == IF sid \in DOMAIN sessions THEN tags[sessions[sid]] ELSE <<>>

(* ----------------------- SessionManager (sessions.py) ----------------- *)
\* faulty variant: dict.get(session_id, []): the new list is returned but not stored
get_with_default(ss, ls, sid) ==
    IF sid \in DOMAIN ss
    THEN [sessions |-> ss, lists |-> ls, ref |-> ss[sid]]
    ELSE [sessions |-> ss, lists |-> Append(ls, <<>>), ref |-> Len(ls) + 1]

\* faulty variant: one default list shared by every new session id (a mutable
\* default argument): the first list ever created is stored for each new id
setdefault_shared_default(ss, ls, sid) ==
    IF sid \in DOMAIN ss
    THEN [sessions |-> ss, lists |-> ls, ref |-> ss[sid]]
    ELSE IF ls = <<>>
         THEN [sessions |-> ss @@ (sid :> 1), lists |-> <<(<<>>)>>, ref |-> 1]
         ELSE [sessions |-> ss @@ (sid :> 1), lists |-> ls, ref |-> 1]

\* faulty variant: self._sessions[session_id] = [] on every call: a new empty
\* list replaces the one the session had
setdefault_overwriting(ss, ls, sid) ==
    [sessions |-> [x \in DOMAIN ss \cup {sid} |->
                        IF x = sid THEN Len(ls) + 1 ELSE ss[x]],
     lists |-> Append(ls, <<>>), ref |-> Len(ls) + 1]

\* dict.setdefault(session_id, []) on the session map
setdefault(ss, ls, sid) ==
    IF sid \in DOMAIN ss
    THEN [sessions |-> ss, lists |-> ls, ref |-> ss[sid]]
    ELSE [sessions |-> ss @@ (sid :> Len(ls) + 1), lists |-> Append(ls, <<>>),
          ref |-> Len(ls) + 1]

\* get_history, "with self._lock:" entered
GetHistoryAcquire(t) ==
    /\ pc[t] = "gh_acquire"
    /\ lock = {}
    /\ lock' = {t}
    /\ pc' = [pc EXCEPT ![t] = "gh_locked"]
    /\ UNCHANGED <<sessions, lists, loc, tags>>

\* faulty variant: self._lock.acquire() with no release when get_history returns
GetHistoryReturnKeepingLock(t) ==
    /\ pc[t] = "gh_locked"
    /\ lock = {t}
    /\ LET r == setdefault(sessions, lists, loc[t].session_id) IN
        /\ sessions' = r.sessions
        /\ lists' = r.lists
        /\ tags' = IF Len(r.lists) > Len(lists) THEN Append(tags, <<>>) ELSE tags
        /\ loc' = [loc EXCEPT ![t].history = r.ref]
    /\ lock' = lock
    /\ pc' = [pc EXCEPT ![t] = loc[t].ret]

\* get_history, the body under the lock and the release on return
GetHistoryReturn(t) ==
    /\ pc[t] = "gh_locked"
    /\ lock = {t}
    /\ LET r == setdefault(sessions, lists, loc[t].session_id) IN
        /\ sessions' = r.sessions
        /\ lists' = r.lists
        /\ tags' = IF Len(r.lists) > Len(lists) THEN Append(tags, <<>>) ELSE tags
        /\ loc' = [loc EXCEPT ![t].history = r.ref]
    /\ lock' = {}
    /\ pc' = [pc EXCEPT ![t] = loc[t].ret]

\* faulty variant: history.insert(0, ...) instead of history.append(...)
list_insert_front(ls, ref, role, text) ==
    [ls EXCEPT ![ref] = <<[role |-> role, content |-> text]>> \o @]

\* faulty variant: the history is capped, the oldest message making room for
\* the new one once two are stored
list_append_capped(ls, ref, role, text) ==
    [ls EXCEPT ![ref] =
        Append(IF Len(@) >= 2 THEN Tail(@) ELSE @, [role |-> role, content |-> text])]

\* history.append({"role": role, "content": text}) on the list object
list_append(ls, ref, role, text) ==
    [ls EXCEPT ![ref] = Append(@, [role |-> role, content |-> text])]

\* faulty variant: the user message is not appended at the start of the turn
AppendUserSkipped(t) ==
    /\ pc[t] = "au_append"
    /\ pc' = [pc EXCEPT ![t] = "build_context"]
    /\ UNCHANGED <<sessions, lists, lock, loc, tags>>

\* append_user after get_history returned
AppendUser(t) ==
    /\ pc[t] = "au_append"
    /\ lists' = list_append(lists, loc[t].history, "user", loc[t].message)
    /\ tags' = [tags EXCEPT ![loc[t].history] =
                    Append(@, [turn |-> t, role |-> "user"])]
    /\ pc' = [pc EXCEPT ![t] = "build_context"]
    /\ UNCHANGED <<sessions, lock, loc>>

\* ChatResponse(answer=result["answer"], tool_calls=result["tool_calls"])
chat_response(l) == [answer |-> l.answer, tool_calls |-> l.tool_calls]

\* faulty variant: the follow-up exchange (the assistant's tool-use turn and the
\* tool-result turn) is stored in the history before the answer
AppendAssistantWithToolTurns(t) ==
    /\ pc[t] = "aa_append"
    /\ LET l == loc[t]
           extra == IF l.tool_results_blocks = <<>> THEN <<>>
                    ELSE <<[role |-> "assistant", content |-> l.first_response],
                           [role |-> "user", content |-> l.tool_results_blocks]>>
           extratags == IF l.tool_results_blocks = <<>> THEN <<>>
                        ELSE <<[turn |-> t, role |-> "assistant"],
                               [turn |-> t, role |-> "user"]>>
       IN  /\ lists' = [lists EXCEPT ![l.history] =
                            @ \o extra \o <<[role |-> "assistant", content |-> l.answer]>>]
           /\ tags' = [tags EXCEPT ![l.history] =
                            @ \o extratags \o <<[turn |-> t, role |-> "assistant"]>>]
    /\ pc' = [pc EXCEPT ![t] = "return"]
    /\ loc' = [loc EXCEPT ![t].outcome = Outcome("response", 200, "none"),
                           ![t].response = chat_response(loc[t])]
    /\ UNCHANGED <<sessions, lock>>

\* faulty variant: the answer is stored once by the completion round trip and
\* once more by chat
AppendAssistantTwice(t) ==
    /\ pc[t] = "aa_append"
    /\ lists' = list_append(list_append(lists, loc[t].history, "assistant",
                                        loc[t].answer),
                            loc[t].history, "assistant", loc[t].answer)
    /\ tags' = [tags EXCEPT ![loc[t].history] =
                    @ \o <<[turn |-> t, role |-> "assistant"],
                           [turn |-> t, role |-> "assistant"]>>]
    /\ pc' = [pc EXCEPT ![t] = "return"]
    /\ loc' = [loc EXCEPT ![t].outcome = Outcome("response", 200, "none"),
                           ![t].response = chat_response(loc[t])]
    /\ UNCHANGED <<sessions, lock>>

\* append_assistant after get_history returned, then chat returns
AppendAssistant(t) ==
    /\ pc[t] = "aa_append"
    /\ lists' = list_append(lists, loc[t].history, "assistant", loc[t].answer)
    /\ tags' = [tags EXCEPT ![loc[t].history] =
                    Append(@, [turn |-> t, role |-> "assistant"])]
    /\ pc' = [pc EXCEPT ![t] = "return"]
    /\ loc' = [loc EXCEPT ![t].outcome = Outcome("response", 200, "none"),
                           ![t].response = chat_response(loc[t])]
    /\ UNCHANGED <<sessions, lock>>

(* ------------------------- chat (main.py) ----------------------------- *)
\* faulty variant: the check without strip(): "if not req.message"
message_is_empty_unstripped(message) == message = EmptyStr

\* "if not req.message.strip()"
message_is_empty(message) == Strip(message) = EmptyStr

\* chat, entry: validation, then append_user calls get_history
\* (turns are numbered in the order in which their requests arrive)
ChatStart(t) ==
    /\ pc[t] = "new"
    /\ \A u \in Turns : u < t => pc[u] # "new"
    /\ \E sid \in SessionIdsOf(t), message \in UserMessages :
        LET l == [IdleLoc EXCEPT
                    !.session_id = sid, !.message = message,
                    !.alone = \A u \in Turns \ {t} :
                                \/ pc[u] \in {"new", "done"}
                                \/ loc[u].session_id # sid]
        IN  IF message_is_empty(message)
            THEN /\ loc' = [loc EXCEPT ![t] =
                        [l EXCEPT !.outcome = Outcome("HTTPException", 400, "empty")]]
                 /\ pc' = [pc EXCEPT ![t] = "raise"]
            ELSE /\ loc' = [loc EXCEPT ![t] = [l EXCEPT !.ret = "au_append"]]
                 /\ pc' = [pc EXCEPT ![t] = "gh_acquire"]
    /\ UNCHANGED <<sessions, lists, lock, tags>>

\* build_context and build_system_prompt, then get_history for the messages
BuildContext(t, H) ==
    /\ pc[t] = "build_context"
    /\ \E hits \in H :
        loc' = [loc EXCEPT ![t].hits = hits,
                           ![t].context_block = build_context_of(hits),
                           ![t].system_prompt =
                                build_system_prompt(build_context_of(hits)),
                           ![t].retrievals = @ + 1,
                           ![t].ret = "format"]
    /\ pc' = [pc EXCEPT ![t] = "gh_acquire"]
    /\ UNCHANGED <<sessions, lists, lock, tags>>

\* what chat does with an exception raised inside build_context: nothing
\* catches it, so it leaves chat and the server answers 500
on_retrieval_error(l) ==
    [pc |-> "raise",
     loc |-> [l EXCEPT !.outcome = Outcome("unhandled", 500, "RetrievalError")]]

\* retrieve raises (collection missing, embedder or index failure)
RetrievalFails(t) ==
    /\ pc[t] = "build_context"
    /\ LET r == on_retrieval_error([loc[t] EXCEPT !.retrieval_failed = TRUE,
                                                 !.retrievals = @ + 1]) IN
        /\ loc' = [loc EXCEPT ![t] = r.loc]
        /\ pc' = [pc EXCEPT ![t] = r.pc]
    /\ UNCHANGED <<sessions, lists, lock, tags>>

\* messages = _format_history_for_llm(history): a copy of the list as it is now
FormatHistory(t) ==
    /\ pc[t] = "format"
    /\ loc' = [loc EXCEPT ![t].messages = format_history_for_llm(lists[loc[t].history])]
    /\ pc' = [pc EXCEPT ![t] = "first_request"]
    /\ UNCHANGED <<sessions, lists, lock, tags>>

\* faulty variant: a provider error other than APIStatusError is swallowed and the
\* turn goes on with an empty answer
on_provider_error_swallowed(l, exc) ==
    IF exc = "APIStatusError"
    THEN [pc |-> "raise", loc |-> [l EXCEPT !.outcome = Outcome("HTTPException", 500, exc)]]
    ELSE [pc |-> "gh_acquire", loc |-> [l EXCEPT !.answer = EmptyStr, !.ret = "aa_append"]]

\* chat's "except APIStatusError" turns that error into HTTPException(500);
\* any other provider exception leaves chat uncaught
on_provider_error(l, exc) ==
    [pc |-> "raise",
     loc |-> [l EXCEPT !.outcome = IF exc = "APIStatusError"
                                   THEN Outcome("HTTPException", 500, exc)
                                   ELSE Outcome("unhandled", 500, exc)]]

\* str(result) of a tool result
str_of(result) == [str |-> result]

\* faulty variant: tool_calls.insert(0, ...) instead of tool_calls.append(...)
run_block_prepending(l, b) ==
    IF b.type # "tool_use" THEN l
    ELSE LET call == execute_tool(b.name, b.input)
             result == IF call.raised THEN [error |-> call.msg] ELSE call.value
         IN  [l EXCEPT
                !.executions = @ + 1,
                !.tool_calls = <<[name |-> b.name, arguments |-> b.input,
                                  result |-> result]>> \o @,
                !.tool_results_blocks =
                    Append(@, [type |-> "tool_result", tool_use_id |-> b.id,
                               content |-> str_of(result)])]

\* faulty variant: tool_use_id taken from the number of the call (the first
\* tool call is 1) instead of block.id
run_block_numbering_calls(l, b) ==
    IF b.type # "tool_use" THEN l
    ELSE LET call == execute_tool(b.name, b.input)
             result == IF call.raised THEN [error |-> call.msg] ELSE call.value
         IN  [l EXCEPT
                !.executions = @ + 1,
                !.bodies = IF call.raised THEN @ ELSE @ + 1,
                !.tool_calls = Append(@, [name |-> b.name, arguments |-> b.input,
                                          result |-> result]),
                !.tool_results_blocks =
                    Append(@, [type |-> "tool_result",
                               tool_use_id |-> Len(l.tool_calls) + 1,
                               content |-> str_of(result)])]

\* one iteration of "for block in first_response.content"
run_block(l, b) ==
    IF b.type # "tool_use" THEN l
    ELSE LET call == execute_tool(b.name, b.input) IN
         IF call.raised /\ call.exc \notin CaughtByToolLoop
         THEN [l EXCEPT !.executions = @ + 1,
                        !.outcome = Outcome("unhandled", 500, call.exc)]
         ELSE LET result == IF call.raised THEN [error |-> call.msg]
                            ELSE call.value
              IN  [l EXCEPT
                     !.executions = @ + 1,
                     !.bodies = IF call.raised THEN @ ELSE @ + 1,
                     !.tool_calls = Append(@, [name |-> b.name,
                                               arguments |-> b.input,
                                               result |-> result]),
                     !.tool_results_blocks =
                        Append(@, [type |-> "tool_result", tool_use_id |-> b.id,
                                   content |-> str_of(result)])]

\* faulty variant: "if tool_results_blocks is not None:", true of an empty list
after_loop_always_followup(l) ==
    IF l.outcome # NoOutcome THEN [pc |-> "raise", loc |-> l]
    ELSE IF l.blk <= Len(l.first_response) THEN [pc |-> "tool_loop", loc |-> l]
    ELSE [pc |-> "followup", loc |-> l]

\* faulty variant: the follow-up is requested as soon as one tool result exists,
\* from inside the loop
after_loop_followup_early(l) ==
    IF l.outcome # NoOutcome THEN [pc |-> "raise", loc |-> l]
    ELSE IF l.tool_results_blocks # <<>> THEN [pc |-> "followup", loc |-> l]
    ELSE IF l.blk <= Len(l.first_response) THEN [pc |-> "tool_loop", loc |-> l]
    ELSE [pc |-> "gh_acquire",
          loc |-> [l EXCEPT !.answer = extract_text_from_blocks(l.first_response),
                            !.ret = "aa_append"]]

\* "if tool_results_blocks:" after the loop
after_loop(l) ==
    IF l.outcome # NoOutcome THEN [pc |-> "raise", loc |-> l]
    ELSE IF l.blk <= Len(l.first_response) THEN [pc |-> "tool_loop", loc |-> l]
    ELSE IF l.tool_results_blocks # <<>> THEN [pc |-> "followup", loc |-> l]
    ELSE [pc |-> "gh_acquire",
          loc |-> [l EXCEPT !.answer = extract_text_from_blocks(l.first_response),
                            !.ret = "aa_append"]]

\* the first anthropic_client.messages.create returns
FirstRequest(t, Rs) ==
    /\ pc[t] = "first_request"
    /\ \E r \in Rs :
        LET n == after_loop([loc[t] EXCEPT
                    !.first_call = first_create_args(loc[t].system_prompt,
                                                     loc[t].messages),
                    !.first_response = r, !.blk = 1,
                    !.completions = @ + 1])
        IN  /\ loc' = [loc EXCEPT ![t] = n.loc]
            /\ pc' = [pc EXCEPT ![t] = n.pc]
    /\ UNCHANGED <<sessions, lists, lock, tags>>

\* the first anthropic_client.messages.create raises
FirstRequestFails(t) ==
    /\ pc[t] = "first_request"
    /\ \E exc \in ProviderErrors :
        LET r == on_provider_error([loc[t] EXCEPT
                    !.first_call = first_create_args(loc[t].system_prompt,
                                                     loc[t].messages),
                    !.completions = @ + 1,
                    !.provider_failed = 1], exc)
        IN  /\ loc' = [loc EXCEPT ![t] = r.loc]
            /\ pc' = [pc EXCEPT ![t] = r.pc]
    /\ UNCHANGED <<sessions, lists, lock, tags>>

\* faulty variant: a tool handler writes what it did into the session's history
ToolLoopStepWritingHistory(t) ==
    /\ pc[t] = "tool_loop"
    /\ LET l == loc[t]
           b == l.first_response[l.blk]
           n == after_loop([run_block(l, b) EXCEPT !.blk = @ + 1])
       IN  /\ loc' = [loc EXCEPT ![t] = n.loc]
           /\ pc' = [pc EXCEPT ![t] = n.pc]
           /\ IF b.type = "tool_use"
              THEN /\ lists' = [lists EXCEPT ![l.history] =
                                    Append(@, [role |-> "assistant",
                                               content |-> EmptyStr])]
                   /\ tags' = [tags EXCEPT ![l.history] =
                                    Append(@, [turn |-> t, role |-> "assistant"])]
              ELSE UNCHANGED <<lists, tags>>
    /\ UNCHANGED <<sessions, lock>>

\* the tool loop looks at the next content block
ToolLoopStep(t) ==
    /\ pc[t] = "tool_loop"
    /\ LET l == loc[t]
           n == after_loop([run_block(l, l.first_response[l.blk])
                               EXCEPT !.blk = @ + 1])
       IN  /\ loc' = [loc EXCEPT ![t] = n.loc]
           /\ pc' = [pc EXCEPT ![t] = n.pc]
    /\ UNCHANGED <<sessions, lists, lock, tags>>

\* faulty variant: the follow-up conversation without the assistant's tool-use turn
followup_messages_without_tool_use(l) ==
    l.messages \o <<[role |-> "user", content |-> l.tool_results_blocks]>>

\* followup_messages = messages + [assistant turn, user turn]
followup_messages(l) ==
    l.messages \o <<[role |-> "assistant", content |-> l.first_response],
                    [role |-> "user", content |-> l.tool_results_blocks]>>

\* faulty variant: the tool-use blocks of the follow-up response are executed too
RECURSIVE run_blocks(_, _)
run_blocks(l, blocks) ==
    IF blocks = <<>> THEN l
    ELSE run_blocks(run_block(l, Head(blocks)), Tail(blocks))

FollowupRequestRunningTools(t, Rs) ==
    /\ pc[t] = "followup"
    /\ \E r \in Rs :
        loc' = [loc EXCEPT ![t] =
                    [run_blocks(loc[t], r) EXCEPT
                        !.second_call =
                            second_create_args(loc[t].system_prompt,
                                               followup_messages(loc[t])),
                        !.second_response = r,
                        !.answer = extract_text_from_blocks(r),
                        !.completions = @ + 1,
                        !.ret = "aa_append"]]
    /\ pc' = [pc EXCEPT ![t] = "gh_acquire"]
    /\ UNCHANGED <<sessions, lists, lock, tags>>

\* the follow-up anthropic_client.messages.create returns
FollowupRequest(t, Rs) ==
    /\ pc[t] = "followup"
    /\ \E r \in Rs :
        loc' = [loc EXCEPT ![t].second_call =
                                second_create_args(loc[t].system_prompt,
                                                   followup_messages(loc[t])),
                           ![t].second_response = r,
                           ![t].answer = extract_text_from_blocks(r),
                           ![t].completions = @ + 1,
                           ![t].ret = "aa_append"]
    /\ pc' = [pc EXCEPT ![t] = "gh_acquire"]
    /\ UNCHANGED <<sessions, lists, lock, tags>>

\* the follow-up anthropic_client.messages.create raises
FollowupFails(t) ==
    /\ pc[t] = "followup"
    /\ \E exc \in ProviderErrors :
        LET r == on_provider_error([loc[t] EXCEPT
                    !.second_call =
                        second_create_args(loc[t].system_prompt,
                                           followup_messages(loc[t])),
                    !.completions = @ + 1,
                    !.provider_failed = 2], exc)
        IN  /\ loc' = [loc EXCEPT ![t] = r.loc]
            /\ pc' = [pc EXCEPT ![t] = r.pc]
    /\ UNCHANGED <<sessions, lists, lock, tags>>

\* the response (ChatResponse or error) leaves the server and the thread
\* ends; of its locals only the status the client received is remembered,
\* and of an accepted turn the session id it was for and how it arrived
Respond(t) ==
    /\ pc[t] \in {"return", "raise"}
    /\ pc' = [pc EXCEPT ![t] = "done"]
    /\ loc' = [loc EXCEPT ![t] =
                [IdleLoc EXCEPT
                    !.outcome = Outcome("sent", loc[t].outcome.status, "none"),
                    !.session_id = IF loc[t].outcome.status = 400
                                   THEN NoSession ELSE loc[t].session_id,
                    !.alone = loc[t].outcome.status # 400 /\ loc[t].alone]]
    /\ UNCHANGED <<sessions, lists, lock, tags>>

\* one step of turn t; H are the hit lists the retriever may return, R1 and
\* R2 the responses the provider may give to the first and to the follow-up
\* request
Step(t, H, R1, R2) ==
    \/ ChatStart(t)
    \/ GetHistoryAcquire(t)
    \/ GetHistoryReturn(t)
    \/ AppendUser(t)
    \/ BuildContext(t, H)
    \/ RetrievalFails(t)
    \/ FormatHistory(t)
    \/ FirstRequest(t, R1)
    \/ FirstRequestFails(t)
    \/ ToolLoopStep(t)
    \/ FollowupRequest(t, R2)
    \/ FollowupFails(t)
    \/ AppendAssistant(t)
    \/ Respond(t)

\* all turns, in any interleaving; the retriever finds nothing or fails, the
\* provider answers with one block or fails
Next == \E t \in Turns : Step(t, {<<>>}, OneBlockResponses, TextResponses)

Spec == Init /\ [][Next]_vars

\* the same interleaved turns, as the specification under which the claims
\* about the lock, the session map and what a turn reads from a history
\* are checked
SpecStore == Init /\ [][Next]_vars

\* one turn alone, the retriever returning any hit list and the provider
\* answering the first request with any response of up to MaxBlocks blocks
NextTurn == Step(1, HitLists, Responses, FollowupResponses)

SpecTurn == Init /\ [][NextTurn]_vars

\* the turn served alone with no retrieved context, its worker thread never
\* stopping for ever while it can go on: every call it makes returns or raises
NextTurnLive == Step(1, {<<>>}, Responses, FollowupResponses)

SpecTurnLive == Init /\ [][NextTurnLive]_vars /\ WF_vars(NextTurnLive)

\* one turn alone, the provider answering the first request with text blocks
\* or one tool use, and the follow-up request with any response
NextAnswer == Step(1, {<<>>}, TextOrOneToolResponses, Responses)

SpecAnswer == Init /\ [][NextAnswer]_vars

(* ------------------------------ properties --------------------------- *)
InFlight(t) == pc[t] \notin {"new", "done"}

\* a string that strip() leaves empty
Blank(s) == \A i \in 1..Len(s) : s[i] \in Whitespace

\* the positions in the history of session sid of the entries turn t appended
Mine(t, sid) ==
    LET tg == TagsOf(sid) IN { i \in 1..Len(tg) : tg[i].turn = t }
MineAs(t, sid, role) ==
    LET tg == TagsOf(sid)
    IN  { i \in 1..Len(tg) : tg[i].turn = t /\ tg[i].role = role }

\* C1: a turn whose message is empty after trimming is rejected with the
\* validation error (HTTP 400) in the step that receives it, that step and the
\* rest of the turn leave the session map and every history as they were, and
\* the turn makes no retrieval, completion or tool call.
C1_Step ==
    \A t \in Turns :
        /\ (pc[t] = "new" /\ pc'[t] # "new" /\ Blank(loc'[t].message))
            => /\ pc'[t] = "raise"
               /\ loc'[t].outcome = Outcome("HTTPException", 400, "empty")
               /\ sessions' = sessions /\ lists' = lists
        /\ (pc[t] = "raise" /\ loc[t].outcome.status = 400)
            => /\ loc[t].retrievals = 0 /\ loc[t].completions = 0
               /\ loc[t].executions = 0
               /\ pc'[t] \in {"raise", "done"}
               /\ pc'[t] = "done" => (sessions' = sessions /\ lists' = lists)

\* C1: every step of every behaviour rejects an empty-after-trim message
\* without touching the session store, as C1_Step states.
C1_EmptyMessageRejected == [][C1_Step]_vars

\* a whitespace-only message was rejected on a session that has a history
C1_Witness ==
    \E t \in Turns :
        /\ pc[t] = "raise" /\ loc[t].outcome.status = 400
        /\ loc[t].message = <<" ">>
        /\ HistoryOf(loc[t].session_id) # <<>>

\* C2: after a completion call of the turn failed (first or follow-up round),
\* the session's history holds exactly one entry appended by the turn: its
\* user message, with no assistant message of the turn.
C2_UserMessageKeptOnProviderFailure ==
    \A t \in Turns :
        loc[t].provider_failed # 0 =>
            LET sid == loc[t].session_id IN
            /\ Len(HistoryOf(sid)) = Len(TagsOf(sid))
            /\ Cardinality(Mine(t, sid)) = 1
            /\ \A i \in Mine(t, sid) :
                /\ TagsOf(sid)[i].role = "user"
                /\ HistoryOf(sid)[i] = [role |-> "user", content |-> loc[t].message]

\* the follow-up completion failed in a session that had a history before
C2_Witness ==
    \E t \in Turns :
        /\ loc[t].provider_failed = 2
        /\ \E i \in Mine(t, loc[t].session_id) : i > 1

\* C3: a turn whose completion call failed, on either round, ends as a
\* failure (status 500) caused by the provider error; it never returns a
\* response with an answer.
C3_ProviderFailureFailsTurn ==
    \A t \in Turns :
        loc[t].provider_failed # 0 =>
            /\ pc[t] = "raise"
            /\ loc[t].outcome.kind \in {"HTTPException", "unhandled"}
            /\ loc[t].outcome.status = 500
            /\ loc[t].outcome.cause \in ProviderErrors
            /\ MineAs(t, loc[t].session_id, "assistant") = {}

\* the follow-up completion failed after a tool had been executed
C3_Witness ==
    \E t \in Turns :
        /\ loc[t].provider_failed = 2 /\ loc[t].executions >= 1
        /\ pc[t] = "raise" /\ loc[t].outcome.cause = "APIConnectionError"

\* C4 (as claimed): a turn whose retrieval failed goes on with an empty
\* context block and does not end as a failure.
C4_RetrievalFailureNonFatal ==
    \A t \in Turns :
        loc[t].retrieval_failed =>
            /\ pc[t] # "raise"
            /\ loc[t].outcome.status # 500
            /\ loc[t].context_block = EmptyStr

(* --------------------------- the tool round ---------------------------- *)
IsToolUse(b) == b.type = "tool_use"
ToolUses(blocks) == SelectSeq(blocks, IsToolUse)

\* the first response has arrived / all its blocks have been looked at
GotFirst(t) == loc[t].blk >= 1
LoopDone(t) == GotFirst(t) /\ loc[t].blk > Len(loc[t].first_response)

\* a tool-use block whose execution raises: no such tool, or keywords that
\* are not the tool's parameters
Fails(b) == b.name \notin ToolFunctions \/ DOMAIN b.input # ToolParams(b.name)

\* the follow-up completion has been or is about to be requested
FollowupAttempted(t) == pc[t] = "followup" \/ loc[t].completions = 2

\* C5: a turn whose first response has no tool-use block makes no second
\* completion call and no tool execution, and returns the text of the first
\* response as its answer with an empty tool_calls list.
C5_NoToolUseSingleCompletion ==
    \A t \in Turns :
        (GotFirst(t) /\ ToolUses(loc[t].first_response) = <<>>) =>
            /\ loc[t].completions = 1
            /\ loc[t].executions = 0
            /\ loc[t].tool_calls = <<>>
            /\ pc[t] \notin {"followup", "raise"}
            /\ LoopDone(t) =>
                loc[t].answer = extract_text_from_blocks(loc[t].first_response)
            /\ pc[t] = "return" =>
                loc[t].response = [answer |-> loc[t].answer, tool_calls |-> <<>>]

\* a turn returned the text of a two-block response without tools
C5_Witness ==
    \E t \in Turns :
        /\ pc[t] = "return"
        /\ Len(loc[t].first_response) = 2
        /\ ToolUses(loc[t].first_response) = <<>>
        /\ loc[t].response.answer = <<"o", "k", "\n", "o", "k">>

\* C6: a turn whose first response has N >= 1 tool-use blocks makes exactly N
\* tool executions and one follow-up completion call, and its tool_calls has
\* N entries, the i-th naming the i-th tool-use block and its arguments.
C6_OneExecutionPerToolUse ==
    \A t \in Turns :
        LET U == ToolUses(loc[t].first_response) IN
        (GotFirst(t) /\ Len(U) >= 1) =>
            /\ loc[t].completions \in {1, 2}
            /\ pc[t] = "tool_loop" => loc[t].completions = 1
            /\ LoopDone(t) =>
                /\ loc[t].executions = Len(U)
                /\ Len(loc[t].tool_calls) = Len(U)
                /\ \A i \in 1..Len(U) :
                    /\ loc[t].tool_calls[i].name = U[i].name
                    /\ loc[t].tool_calls[i].arguments = U[i].input
                /\ FollowupAttempted(t)
            /\ pc[t] = "return" =>
                /\ loc[t].completions = 2
                /\ loc[t].response.tool_calls = loc[t].tool_calls

\* a turn returned after executing two different tool-use blocks
C6_Witness ==
    \E t \in Turns :
        LET U == ToolUses(loc[t].first_response) IN
        /\ pc[t] = "return"
        /\ Len(U) = 2
        /\ U[1].name # U[2].name

\* C7: a failing tool execution aborts neither the later tool-use blocks nor
\* the turn: every tool-use block is executed, the entry of a failed one
\* carries {error: message} as its result, the follow-up completion is
\* attempted, and the turn ends as a failure only if a completion call fails.
C7_ToolFailureDoesNotAbort ==
    \A t \in Turns :
        LET U == ToolUses(loc[t].first_response) IN
        (GotFirst(t) /\ \E i \in 1..Len(U) : Fails(U[i])) =>
            /\ pc[t] = "raise" => loc[t].provider_failed = 2
            /\ LoopDone(t) =>
                /\ loc[t].executions = Len(U)
                /\ Len(loc[t].tool_calls) = Len(U)
                /\ \A i \in 1..Len(U) :
                    Fails(U[i]) <=> DOMAIN loc[t].tool_calls[i].result = {"error"}
                /\ FollowupAttempted(t)

\* a turn returned although its first tool failed, and the second tool ran
C7_Witness ==
    \E t \in Turns :
        LET U == ToolUses(loc[t].first_response) IN
        /\ pc[t] = "return"
        /\ Len(U) = 2
        /\ Fails(U[1]) /\ ~Fails(U[2])
        /\ "status" \in DOMAIN loc[t].response.tool_calls[2].result

\* C8: a tool-use block naming an unregistered tool yields an error result in
\* tool_calls (the KeyError of execute_tool is caught by the tool loop), and
\* the turn goes on to the follow-up completion.
C8_UnknownToolIsErrorResult ==
    \A t \in Turns :
        LET U == ToolUses(loc[t].first_response) IN
        (LoopDone(t) /\ \E i \in 1..Len(U) : U[i].name \notin ToolFunctions) =>
            /\ Len(loc[t].tool_calls) = Len(U)
            /\ \A i \in 1..Len(U) :
                U[i].name \notin ToolFunctions =>
                    loc[t].tool_calls[i] =
                        [name |-> U[i].name, arguments |-> U[i].input,
                         result |-> [error |-> <<"Unknown tool", U[i].name>>]]
            /\ FollowupAttempted(t)
            /\ loc[t].outcome.cause \notin {"KeyError"}

\* a turn returned after its only tool-use block named an unknown tool
C8_Witness ==
    \E t \in Turns :
        /\ pc[t] = "return"
        /\ Len(loc[t].response.tool_calls) = 1
        /\ loc[t].response.tool_calls[1].name = "unknown_tool"
        /\ loc[t].completions = 2

(* ------------------------- the session histories ---------------------- *)
\* C9: when a turn returns successfully, its session's history holds the
\* turn's user message and the turn's assistant message, each once, the user
\* message first, and the assistant message's content is the answer returned.
C9_SuccessAppendsUserThenAssistant ==
    \A t \in Turns :
        pc[t] = "return" =>
            LET sid == loc[t].session_id
                h == HistoryOf(sid)
                mu == MineAs(t, sid, "user")
                ma == MineAs(t, sid, "assistant")
            IN  /\ loc[t].outcome.status = 200
                /\ Len(h) = Len(TagsOf(sid))
                /\ Cardinality(mu) = 1
                /\ Cardinality(ma) = 1
                /\ \A i \in mu, j \in ma :
                    /\ i < j
                    /\ h[i] = [role |-> "user", content |-> loc[t].message]
                    /\ h[j] = [role |-> "assistant",
                               content |-> loc[t].response.answer]

\* a turn returned with another turn's message between its two messages
C9_Witness ==
    \E t \in Turns :
        LET sid == loc[t].session_id IN
        /\ pc[t] = "return"
        /\ \E i \in MineAs(t, sid, "user"), j \in MineAs(t, sid, "assistant") :
            \E k \in (i + 1)..(j - 1) : TagsOf(sid)[k].turn # t

\* every entry turn t appended with the given role, as <<list object, index>>
Entries(t, role) ==
    UNION { { <<o, i>> : i \in { k \in 1..Len(tags[o]) :
                                    tags[o][k] = [turn |-> t, role |-> role] } } :
            o \in 1..Len(tags) }

\* append_user / append_assistant of turn t has returned
UserAppended(t) ==
    \/ pc[t] \in {"build_context", "format", "first_request", "tool_loop",
                  "followup", "aa_append", "return"}
    \/ pc[t] \in {"gh_acquire", "gh_locked"} /\ loc[t].ret # "au_append"
    \/ pc[t] \in {"raise", "done"} /\ loc[t].outcome.status \in {200, 500}
AssistantAppended(t) ==
    \/ pc[t] = "return"
    \/ pc[t] = "done" /\ loc[t].outcome.status = 200

\* C10: under every interleaving of the turns' get_history, append_user and
\* append_assistant calls, each append that has returned is in the histories
\* exactly once and each append not yet made is in none; every list object is
\* the history of exactly one session id, and every turn holding a reference
\* holds the one its session id maps to.
C10_NoLostOrDuplicatedAppend ==
    /\ Len(tags) = Len(lists)
    /\ \A o \in 1..Len(lists) :
        /\ Cardinality({ sid \in DOMAIN sessions : sessions[sid] = o }) = 1
        /\ Len(lists[o]) = Len(tags[o])
        /\ \A i \in 1..Len(lists[o]) : lists[o][i].role = tags[o][i].role
    /\ \A t \in Turns :
        LET eu == Entries(t, "user")
            ea == Entries(t, "assistant")
        IN  /\ Cardinality(eu) = IF UserAppended(t) THEN 1 ELSE 0
            /\ Cardinality(ea) = IF AssistantAppended(t) THEN 1 ELSE 0
            /\ (InFlight(t) /\ loc[t].history # 0) =>
                /\ loc[t].session_id \in DOMAIN sessions
                /\ loc[t].history = sessions[loc[t].session_id]
                /\ \A e \in eu \cup ea : e[1] = loc[t].history

\* two turns made their first access to the same new session id one after
\* the other, got the same list object, and neither has appended yet
C10_Witness ==
    \E t, u \in Turns :
        /\ t # u
        /\ pc[t] = "au_append" /\ pc[u] = "au_append"
        /\ loc[t].session_id = loc[u].session_id
        /\ loc[t].history = loc[u].history
        /\ lists[loc[t].history] = <<>>

(* ------------------------------ the lock ------------------------------ *)
\* the steps of a turn that wait for something outside the process: the
\* retrieval, either completion call, a tool execution
InIO(t) == pc[t] \in {"build_context", "first_request", "tool_loop", "followup"}

\* C11: the session store's lock is never held by a turn that is in retrieval,
\* in either completion call or in tool execution: whoever holds it is inside
\* get_history's lookup-or-create of the session map, and at most one turn
\* holds it, so a turn waiting for the lock waits only for such a lookup.
C11_LockOnlyInGetHistory ==
    /\ Cardinality(lock) <= 1
    /\ \A t \in Turns :
        /\ t \in lock <=> pc[t] = "gh_locked"
        /\ InIO(t) => t \notin lock

\* one turn is waiting for the provider while another turn holds the lock
C11_Witness ==
    \E t, u \in Turns :
        /\ pc[t] = "first_request"
        /\ pc[u] = "gh_locked" /\ lock = {u}

(* ------------------------ what a history holds ------------------------ *)
\* the texts a history may hold: a message a client submitted and chat
\* accepted, or the text extracted from a response
SubmittedTexts == { m \in UserMessages : ~Blank(m) }
AnswerTexts == { extract_text_from_blocks(r) : r \in Responses }
PlainTextForms == { ToString(p) : p \in SubmittedTexts \cup AnswerTexts }

\* content is one of those texts (compared in printed form, so that a content
\* that is a list of blocks is a difference and not an evaluation error)
IsPlainText(content) == ToString(content) \in PlainTextForms

\* C12: every message of every history is a {role, content} pair whose role
\* is "user" or "assistant" and whose content is plain text, a submitted
\* message for "user" and an answer for "assistant"; the assistant's tool-use
\* turn and the tool-result turn of a follow-up round are in no history, and
\* a turn that has appended its answer has added two messages, not four.
C12_NoToolMetadataInHistory ==
    /\ \A o \in 1..Len(lists) : \A i \in 1..Len(lists[o]) :
        LET m == lists[o][i] IN
        /\ DOMAIN m = {"role", "content"}
        /\ m.role \in {"user", "assistant"}
        /\ IsPlainText(m.content)
        /\ m.role = "user" => m.content \in SubmittedTexts
        /\ m.role = "assistant" => m.content \in AnswerTexts
    /\ \A t \in Turns :
        (pc[t] = "return" /\ loc[t].tool_calls # <<>>) =>
            /\ Len(lists[loc[t].history]) = 2
            /\ lists[loc[t].history][2].content = loc[t].answer

\* a turn that executed two tools and asked the follow-up has appended its
\* answer
C12_Witness ==
    \E t \in Turns :
        /\ pc[t] = "return"
        /\ Len(loc[t].tool_results_blocks) = 2
        /\ loc[t].completions = 2
        /\ Len(lists[loc[t].history]) = 2

(* ------------------------- lazy session creation ---------------------- *)
\* C13 (one step): get_history for a session id that is not in the session
\* map creates the session with an empty history and returns that history;
\* append_user and append_assistant put their message after everything
\* already in the session's history, and no step changes a history otherwise.
C13_Step ==
    /\ \A t \in Turns :
        LET sid == loc[t].session_id IN
        /\ (pc[t] = "gh_locked" /\ pc'[t] # "gh_locked" /\ sid \notin DOMAIN sessions)
            => /\ sid \in DOMAIN sessions'
               /\ loc'[t].history = sessions'[sid]
               /\ lists'[sessions'[sid]] = <<>>
               /\ \A o \in 1..Len(lists) : lists'[o] = lists[o]
        /\ (pc[t] = "au_append" /\ pc'[t] # "au_append")
            => lists'[sessions[sid]] =
                    Append(lists[sessions[sid]],
                           [role |-> "user", content |-> loc[t].message])
        /\ (pc[t] = "aa_append" /\ pc'[t] # "aa_append")
            => lists'[sessions[sid]] =
                    Append(lists[sessions[sid]],
                           [role |-> "assistant", content |-> loc[t].answer])
    /\ \A o \in 1..Len(lists) :
        /\ Len(lists'[o]) >= Len(lists[o])
        /\ SubSeq(lists'[o], 1, Len(lists[o])) = lists[o]

\* C13: in every step of every behaviour, a never-seen session id gets an
\* empty history from get_history, and appends accumulate in call order.
C13_LazyCreationAndAppendOrder == [][C13_Step]_vars

\* session "s2" was created when "s1" already had messages, and holds the
\* user message and the answer of its turn, in the order they were appended
C13_Witness ==
    /\ {"s1", "s2"} \subseteq DOMAIN sessions
    /\ sessions["s2"] > sessions["s1"]
    /\ HistoryOf("s1") # <<>>
    /\ Len(HistoryOf("s2")) = 2
    /\ TagsOf("s2")[1].role = "user" /\ TagsOf("s2")[2].role = "assistant"

(* ------------------------- the follow-up request ---------------------- *)
\* C14: the tool-result turn of the follow-up round carries one tool_result
\* block per tool-use block of the first response, in the same order; the
\* tool_use_id of each is the id of the tool-use block it answers, which is
\* the id of no other block, and its content is the result recorded in
\* tool_calls, also when the tool failed.
C14_ToolResultsPairWithToolUses ==
    \A t \in Turns :
        LET U == ToolUses(loc[t].first_response)
            R == loc[t].tool_results_blocks
        IN  /\ GotFirst(t) =>
                /\ Len(R) <= Len(U)
                /\ \A i \in 1..Len(R) :
                    /\ R[i].type = "tool_result"
                    /\ R[i].tool_use_id = U[i].id
                    /\ Cardinality({ j \in 1..Len(U) :
                                        U[j].id = R[i].tool_use_id }) = 1
                    /\ R[i].content = str_of(loc[t].tool_calls[i].result)
            /\ LoopDone(t) => Len(R) = Len(U)
            /\ loc[t].completions = 2 =>
                LET sent == loc[t].second_call.messages IN
                /\ sent[Len(sent)].role = "user"
                /\ Len(sent[Len(sent)].content) = Len(U)
                /\ sent[Len(sent)].content = R

\* the follow-up was answered after the only tool-use block, which came
\* second in the first response, had failed
C14_Witness ==
    \E t \in Turns :
        LET U == ToolUses(loc[t].first_response) IN
        /\ pc[t] = "return" /\ loc[t].completions = 2
        /\ Len(U) = 1 /\ U[1].id = 2 /\ Fails(U[1])
        /\ loc[t].tool_results_blocks[1].tool_use_id = 2

(* ----------------------- arguments that do not fit -------------------- *)
\* a tool-use block for a registered tool whose argument keys are not the
\* tool's declared parameters: one is missing, or one is unexpected
KeyMismatch(b) == b.name \in ToolFunctions /\ DOMAIN b.input # ToolParams(b.name)

\* C15: when a registered tool is requested with argument keys that do not
\* match its declared parameters, the tool's body is not entered (bodies
\* counts the bodies entered: one per block that fits, none for the others),
\* the failure is the {error: ...} result of that block's tool_calls entry,
\* every other tool-use block is still executed, and the follow-up completion
\* is attempted; the turn fails only if that completion call fails.
C15_ArgumentMismatchIsErrorResult ==
    \A t \in Turns :
        LET U == ToolUses(loc[t].first_response) IN
        (GotFirst(t) /\ \E i \in 1..Len(U) : KeyMismatch(U[i])) =>
            /\ loc[t].outcome.cause # "TypeError"
            /\ pc[t] = "raise" => loc[t].provider_failed = 2
            /\ loc[t].bodies <= Cardinality({ i \in 1..Len(U) : ~Fails(U[i]) })
            /\ LoopDone(t) =>
                /\ loc[t].executions = Len(U)
                /\ loc[t].bodies = Cardinality({ i \in 1..Len(U) : ~Fails(U[i]) })
                /\ Len(loc[t].tool_calls) = Len(U)
                /\ \A i \in 1..Len(U) :
                    /\ loc[t].tool_calls[i].name = U[i].name
                    /\ loc[t].tool_calls[i].arguments = U[i].input
                    /\ KeyMismatch(U[i]) =>
                        DOMAIN loc[t].tool_calls[i].result = {"error"}
                    /\ ~Fails(U[i]) =>
                        "error" \notin DOMAIN loc[t].tool_calls[i].result
                /\ FollowupAttempted(t)

\* send_email was requested with an order_id and without its own
\* parameters, the order lookup requested after it ran, and the turn returned
C15_Witness ==
    \E t \in Turns :
        LET U == ToolUses(loc[t].first_response) IN
        /\ pc[t] = "return"
        /\ Len(U) = 2
        /\ U[1].name = "send_email" /\ DOMAIN U[1].input = {"order_id"}
        /\ ~Fails(U[2])
        /\ loc[t].bodies = 1
        /\ DOMAIN loc[t].response.tool_calls[1].result = {"error"}

(* --------------------- context block and system prompt ---------------- *)
\* sub occurs in s as a contiguous part
Contains(s, sub) ==
    \E i \in 0..(Len(s) - Len(sub)) : SubSeq(s, i + 1, i + Len(sub)) = sub

\* C16: when retrieval returned no hit the context block is the empty string;
\* the system prompt built from an empty context block contains the sentinel
\* "NO CONTEXT RETRIEVED"; the system prompt built from a non-empty context
\* block contains that block verbatim, in the place the sentinel would take,
\* and does not contain the sentinel.
C16_ContextBlockAndSentinel ==
    \A t \in Turns :
        (loc[t].retrievals = 1 /\ ~loc[t].retrieval_failed) =>
            LET block == loc[t].context_block
                prompt == loc[t].system_prompt
            IN  /\ loc[t].hits = <<>> => block = EmptyStr
                /\ block = EmptyStr =>
                    /\ Contains(prompt, NoContextSentinel)
                    /\ prompt = PromptHead \o NoContextSentinel \o PromptTail
                /\ block # EmptyStr =>
                    /\ Contains(prompt, block)
                    /\ ~Contains(prompt, NoContextSentinel)
                    /\ prompt = PromptHead \o block \o PromptTail

\* retrieval returned K hits and the prompt built from them is about to be
\* sent
C16_Witness ==
    \E t \in Turns :
        /\ pc[t] = "first_request"
        /\ Len(loc[t].hits) = K
        /\ Len(loc[t].context_block) > K
        /\ Contains(loc[t].system_prompt, loc[t].context_block)

(* ----------------------- the order of a turn's steps ------------------ *)
\* C17: within a turn the user message is appended before retrieval starts,
\* retrieval has returned before the first completion is requested, every
\* tool execution has been made before the follow-up completion is requested,
\* and the assistant message is appended only after the last completion call
\* returned; so a turn that fails after its first step (status 500) leaves
\* its user message, and no assistant message, in the history.
C17_StepOrder ==
    \A t \in Turns :
        InFlight(t) =>
            LET sid == loc[t].session_id
                U == ToolUses(loc[t].first_response)
                h == HistoryOf(sid)
            IN  /\ (pc[t] = "build_context" \/ loc[t].retrievals >= 1) =>
                    /\ Cardinality(MineAs(t, sid, "user")) = 1
                    /\ \A i \in MineAs(t, sid, "user") :
                        h[i] = [role |-> "user", content |-> loc[t].message]
                /\ (pc[t] = "first_request" \/ loc[t].completions >= 1) =>
                    /\ loc[t].retrievals = 1
                    /\ ~loc[t].retrieval_failed
                /\ loc[t].executions >= 1 => loc[t].completions >= 1
                /\ (pc[t] = "followup" \/ loc[t].completions = 2) =>
                    /\ LoopDone(t)
                    /\ loc[t].executions = Len(U)
                /\ MineAs(t, sid, "assistant") # {} =>
                    /\ pc[t] = "return"
                    /\ LoopDone(t)
                    /\ loc[t].provider_failed = 0
                    /\ loc[t].completions = IF U = <<>> THEN 1 ELSE 2
                /\ (pc[t] = "raise" /\ loc[t].outcome.status = 500) =>
                    /\ Cardinality(MineAs(t, sid, "user")) = 1
                    /\ MineAs(t, sid, "assistant") = {}

\* the follow-up completion failed after both tools of the first response
\* had been executed; the user message is the whole history
C17_Witness ==
    \E t \in Turns :
        /\ pc[t] = "raise"
        /\ loc[t].provider_failed = 2
        /\ loc[t].executions = 2
        /\ HistoryOf(loc[t].session_id) =
                <<[role |-> "user", content |-> loc[t].message]>>

(* ------------------ the messages of the first request ----------------- *)
\* the first messages.create call of turn t has been made
FirstCallMade(t) == InFlight(t) /\ loc[t].completions >= 1

C19_FollowupRequestShape ==
    \A t \in Turns :
        (InFlight(t) /\ loc[t].completions = 2) =>
            LET c1 == loc[t].first_call
                c2 == loc[t].second_call
                n == Len(c1.messages)
            IN  /\ Len(c2.messages) = n + 2
                /\ SubSeq(c2.messages, 1, n) = c1.messages
                /\ c2.messages[n + 1].role = "assistant"
                /\ Len(c2.messages[n + 1].content) = Len(loc[t].first_response)
                /\ c2.messages[n + 1].content = loc[t].first_response
                /\ ToolUses(c2.messages[n + 1].content) # <<>>
                /\ c2.messages[n + 2].role = "user"
                /\ Len(c2.messages[n + 2].content) = Len(loc[t].tool_results_blocks)
                /\ c2.messages[n + 2].content = loc[t].tool_results_blocks
                /\ c2.system = c1.system
                /\ c2.system = loc[t].system_prompt
                /\ DOMAIN c2 = {"system", "messages"}
                /\ DOMAIN c1 = {"system", "messages", "tools"}
                /\ c1.tools = get_tool_specs

\* the follow-up was answered for a first response of a text block followed
\* by a tool-use block that succeeded, with retrieved context in the prompt
C19_Witness ==
    \E t \in Turns :
        /\ pc[t] = "return" /\ loc[t].completions = 2
        /\ Len(loc[t].first_response) = 2
        /\ loc[t].first_response[1].type = "text"
        /\ loc[t].first_response[2].type = "tool_use"
        /\ ~Fails(loc[t].first_response[2])
        /\ loc[t].context_block # EmptyStr
        /\ Len(loc[t].second_call.messages) = 3

(* ----------------------------- the answer ----------------------------- *)
\* the response the answer is taken from
DecidingResponse(t) ==
    IF ToolUses(loc[t].first_response) = <<>>
    THEN loc[t].first_response ELSE loc[t].second_response

\* that response has arrived and the answer has been extracted from it
AnswerDecided(t) ==
    /\ InFlight(t) /\ LoopDone(t) /\ loc[t].provider_failed = 0
    /\ ToolUses(loc[t].first_response) # <<>> => loc[t].completions = 2

\* the texts of the text blocks in order, a newline between two of them
RECURSIVE TextConcat(_, _)
TextConcat(blocks, started) ==
    IF blocks = <<>> THEN <<>>
    ELSE IF Head(blocks).type # "text" THEN TextConcat(Tail(blocks), started)
    ELSE (IF started THEN <<"\n">> ELSE <<>>) \o Head(blocks).text
            \o TextConcat(Tail(blocks), TRUE)

\* a is s without the whitespace at its two ends
IsTrimOf(a, s) ==
    /\ a # <<>> => (a[1] \notin Whitespace /\ a[Len(a)] \notin Whitespace)
    /\ \E i \in 0..Len(s) : \E j \in i..Len(s) :
        /\ a = SubSeq(s, i + 1, j)
        /\ Blank(SubSeq(s, 1, i))
        /\ Blank(SubSeq(s, j + 1, Len(s)))

\* C20: the answer of a turn is the texts of the text blocks of the deciding
\* response (the first response when it has no tool-use block, the follow-up
\* response otherwise), in response order with a newline between them,
\* trimmed of surrounding whitespace; blocks that are not text add nothing,
\* and a deciding response without text block gives the empty answer. It is
\* the answer the turn returns.
C20_AnswerIsTrimmedTextConcat ==
    \A t \in Turns :
        AnswerDecided(t) =>
            LET d == DecidingResponse(t) IN
            /\ IsTrimOf(loc[t].answer, TextConcat(d, FALSE))
            /\ (\A i \in 1..Len(d) : d[i].type # "text") => loc[t].answer = EmptyStr
            /\ pc[t] = "return" => loc[t].response.answer = loc[t].answer

\* the follow-up response was a blank text block and the text "ok": the
\* answer returned is "ok"
C20_Witness ==
    \E t \in Turns :
        /\ pc[t] = "return" /\ loc[t].completions = 2
        /\ Len(loc[t].second_response) = 2
        /\ loc[t].second_response[1] = [type |-> "text", text |-> <<" ">>]
        /\ loc[t].second_response[2].type = "text"
        /\ loc[t].response.answer = <<"o", "k">>

(* ----------------------------- termination ---------------------------- *)
\* the turn passed validation / the turn is over: its answer was appended
\* and returned, or it failed
Accepted(t) == InFlight(t) /\ ~Blank(loc[t].message)
Finished(t) == pc[t] \in {"return", "raise", "done"}

\* at most two completion calls; the tool executions are those of the first
\* response's tool-use blocks, whatever the follow-up response carries; once
\* the follow-up has been answered the turn is past every completion call
C21_AtMostTwoCompletions ==
    \A t \in Turns :
        LET U == ToolUses(loc[t].first_response) IN
        /\ loc[t].completions <= 2
        /\ loc[t].executions <= Len(U)
        /\ Len(loc[t].tool_calls) <= Len(U)
        /\ loc[t].completions = 2 =>
            /\ loc[t].executions = Len(U)
            /\ Len(loc[t].tool_calls) = Len(U)
            /\ pc[t] \notin {"first_request", "tool_loop", "followup"}

\* C21: every accepted turn makes at most two completion calls, executes no
\* tool-use block of the follow-up response and asks no third completion,
\* and eventually is over: it returns after appending the assistant message,
\* or it fails.
C21_TurnTerminates ==
    /\ []C21_AtMostTwoCompletions
    /\ \A t \in Turns : Accepted(t) ~> Finished(t)

\* the turn returned after a follow-up response that carried a tool-use
\* block, with the one tool execution of the first response
C21_Witness ==
    \E t \in Turns :
        /\ pc[t] = "return" /\ loc[t].completions = 2
        /\ ToolUses(loc[t].second_response) # <<>>
        /\ loc[t].executions = 1
        /\ Len(loc[t].response.tool_calls) = 1

(* --------------------------- append-only store ------------------------ *)
\* C22 (one step): every list object stays as it is or gains exactly one
\* message at its end, the messages it had staying the same in the same
\* places; no list object disappears; every session id of the map stays in
\* the map, with the same list object.
C22_Step ==
    /\ Len(lists') >= Len(lists)
    /\ \A o \in 1..Len(lists) :
        \/ lists'[o] = lists[o]
        \/ /\ Len(lists'[o]) = Len(lists[o]) + 1
           /\ SubSeq(lists'[o], 1, Len(lists[o])) = lists[o]
    /\ DOMAIN sessions \subseteq DOMAIN sessions'
    /\ \A sid \in DOMAIN sessions : sessions'[sid] = sessions[sid]

\* C22: session histories are append-only and sessions are never deleted,
\* in every step of every behaviour.
C22_AppendOnly == [][C22_Step]_vars

\* both turns ran on one session and are over: its history holds their four
\* messages
C22_Witness ==
    /\ \A t \in Turns : pc[t] = "done"
    /\ Len(HistoryOf("s1")) = 4
    /\ DOMAIN sessions = {"s1"}

(* ------------------------ get_history, repeated ----------------------- *)
\* turn t's call of get_history returns in this step
GetHistoryReturns(t) == pc[t] = "gh_locked" /\ pc'[t] # "gh_locked"

\* C23 (one step): a get_history call on a session id that is in the map
\* returns the list the id maps to and changes neither the map nor any
\* history; a call on an id that is not in the map adds that id alone, with
\* one new empty list, and changes no other history; there are never more
\* lists than session ids, however many calls were made.
C23_Step ==
    /\ Len(lists) = Cardinality(DOMAIN sessions)
    /\ \A t \in Turns :
        LET sid == loc[t].session_id IN
        GetHistoryReturns(t) =>
            /\ sid \in DOMAIN sessions =>
                /\ sessions' = sessions
                /\ lists' = lists
                /\ loc'[t].history = sessions[sid]
            /\ sid \notin DOMAIN sessions =>
                /\ DOMAIN sessions' = DOMAIN sessions \cup {sid}
                /\ \A x \in DOMAIN sessions : sessions'[x] = sessions[x]
                /\ lists' = Append(lists, <<>>)
                /\ sessions'[sid] = Len(lists')
                /\ loc'[t].history = sessions'[sid]

\* C23: get_history is idempotent after the first access, in every step of
\* every behaviour.
C23_GetHistoryIdempotent == [][C23_Step]_vars

\* two turns have each called get_history three times on the same session
\* id, and the store holds one list
C23_Witness ==
    \E t, u \in Turns :
        /\ t # u
        /\ pc[t] = "aa_append" /\ pc[u] = "aa_append"
        /\ loc[t].session_id = loc[u].session_id
        /\ Len(lists) = 1
        /\ Len(lists[1]) = 2

(* ------------------------- what a turn may change --------------------- *)
\* turn t takes this step
Moves(t) == pc'[t] # pc[t] \/ loc'[t].blk # loc[t].blk

\* C24 (one step): a step of a turn that is validation, retrieval, the
\* history copy, a completion call, a tool execution or the sending of the
\* response changes neither the session map nor any history; get_history
\* changes no history (it may add an empty one); the only steps that change
\* a history are the turn's user append, made when the turn has appended
\* nothing, and its assistant append, made when the turn has appended its
\* user message alone; and no step of a turn changes the history of a
\* session id other than the turn's own.
C24_Step ==
    \A t \in Turns :
        Moves(t) =>
            /\ pc[t] \notin {"gh_locked", "au_append", "aa_append"} =>
                (sessions' = sessions /\ lists' = lists)
            /\ pc[t] = "gh_locked" =>
                \A o \in 1..Len(lists) : lists'[o] = lists[o]
            /\ pc[t] = "au_append" =>
                /\ sessions' = sessions
                /\ Entries(t, "user") \cup Entries(t, "assistant") = {}
            /\ pc[t] = "aa_append" =>
                /\ sessions' = sessions
                /\ Cardinality(Entries(t, "user")) = 1
                /\ Entries(t, "assistant") = {}
            /\ \A sid \in DOMAIN sessions :
                sid # loc[t].session_id =>
                    /\ sid \in DOMAIN sessions'
                    /\ lists'[sessions'[sid]] = lists[sessions[sid]]

\* C24: retrieval, the completion calls and the tool executions leave the
\* session store unchanged, a turn changes it by its one user append and
\* its one assistant append only, and never for another session id, in
\* every step of every behaviour.
C24_OnlyAppendsChangeStore == [][C24_Step]_vars

\* a turn has executed a tool and is about to ask the follow-up while a turn
\* on another session id waits for its first completion; each history holds
\* its turn's user message only
C24_Witness ==
    \E t, u \in Turns :
        /\ pc[t] = "followup" /\ loc[t].executions = 1
        /\ pc[u] = "first_request"
        /\ loc[t].session_id # loc[u].session_id
        /\ Len(HistoryOf(loc[t].session_id)) = 1
        /\ Len(HistoryOf(loc[u].session_id)) = 1

(* ---------------------- messages and turns, counted ------------------- *)
\* the number of messages of the given role in a history
NumRole(h, role) == Cardinality({ i \in 1..Len(h) : h[i].role = role })

\* turn t was received for session id sid and passed the empty-message check
AcceptedOn(t, sid) ==
    /\ pc[t] # "new"
    /\ loc[t].session_id = sid
    /\ loc[t].outcome.status # 400

\* turn t failed after it was accepted (retrieval or provider error)
Failed(t) == pc[t] \in {"raise", "done"} /\ loc[t].outcome.status = 500

\* C25: under every interleaving of turns, in every reachable state and for
\* each session id, the history holds one user message for each accepted turn
\* on that id whose append_user has returned (every accepted turn, but for
\* those still between the check of the message and that append), one
\* assistant message for each of those turns that completed successfully,
\* and nothing else, so no more assistant than user messages; if every
\* accepted turn on the id arrived while no other turn on it was being
\* served and none failed, the roles alternate user, assistant, starting
\* with user.
C25_CountsAndAlternation ==
    \A sid \in SessionIds :
        LET h == HistoryOf(sid)
            on == { t \in Turns : AcceptedOn(t, sid) }
            pending == { t \in on : ~UserAppended(t) }
            completed == { t \in on : AssistantAppended(t) }
            users == NumRole(h, "user")
            assistants == NumRole(h, "assistant")
        IN  /\ \A t \in pending :
                pc[t] \in {"gh_acquire", "gh_locked", "au_append"}
            /\ users = Cardinality(on) - Cardinality(pending)
            /\ assistants = Cardinality(completed)
            /\ Len(h) = users + assistants
            /\ assistants <= users
            /\ (\A t \in on : loc[t].alone /\ ~Failed(t)) =>
                    \A i \in 1..Len(h) :
                        h[i].role = IF i % 2 = 1 THEN "user" ELSE "assistant"

\* two turns on one session id, the second received after the first was
\* answered, both answered: the history reads user, assistant, user,
\* assistant
C25_Witness ==
    /\ \A t \in Turns :
        /\ pc[t] = "done"
        /\ AcceptedOn(t, "s1")
        /\ loc[t].outcome.status = 200
        /\ loc[t].alone
    /\ NumRole(HistoryOf("s1"), "user") = NumTurns
    /\ NumRole(HistoryOf("s1"), "assistant") = NumTurns
    /\ HistoryOf("s1")[1].role = "user"
    /\ HistoryOf("s1")[2 * NumTurns].role = "assistant"

\* two turns on one session id served at once: both user messages are stored
\* before either answer, so the history does not alternate
C25_WitnessInterleaved ==
    /\ NumRole(HistoryOf("s1"), "user") = 2
    /\ Len(HistoryOf("s1")) >= 2
    /\ HistoryOf("s1")[1].role = "user"
    /\ HistoryOf("s1")[2].role = "user"
    /\ \A t \in Turns : AcceptedOn(t, "s1") => ~Failed(t)

====
